---- MODULE Spec2Model ----
(***************************************************************************)
(* The bulk-ticket server (server/index.js): the job registry activeJobs,   *)
(* the startBulkCreate worker loop, interruptibleSleep, verifyTicketEmail,  *)
(* the pauseJob / resumeJob / endJob / disconnect handlers and the token    *)
(* cache used by makeApiCall; and the client's handling of the job events  *)
(* (App.tsx, ZohoDashboard.tsx).  Spec has one batch without verifyEmail,   *)
(* SpecFair the same with the scheduling of timers and answers,             *)
(* SpecOverlap and SpecShared batches that overlap, SpecKeys two keys of    *)
(* one connection, SpecVerify and SpecPair batches with verifyEmail,        *)
(* SpecClient the client and the server together.                           *)
(* Node runs every handler and every continuation of an                     *)
(* await to its next await without interleaving, so one action of this      *)
(* module is one such run: from the arrival of a socket message, a timer    *)
(* tick or an HTTP response to the next point where the code awaits.        *)
(***************************************************************************)
EXTENDS Integers, Sequences, FiniteSets, TLC

\* ---------------------------------------------------------------- bounds
MaxStarts == 1        \* startBulkCreate requests received in one behaviour of Spec
MaxDelay  == 2        \* the non-zero delay offered, in tenths of a second

\* ------------------------------------------------------ program constants
interval == 100       \* poll tick of interruptibleSleep, in ms
verifyWait == 10000   \* the wait of verifyTicketEmail before its checks, in ms

\* ---------------------------------------------------------------- inputs
Sockets == {"s1"}
\* profiles.json as read by readProfiles: p1 has a fromEmailAddress, p2 has none
StoredProfiles == {"p1", "p2"}
HasFromEmailAddress(p) == p = "p1"
\* names a client may send: the stored ones and one that is not stored
ProfileNames == StoredProfiles \cup {"px"}
\* recipient strings: an address and a whitespace-only entry
EmailStrings == {"a@x.com", "  "}
Delays == {0, MaxDelay}

\* invocations of the startBulkCreate handler: Spec starts MaxStarts of them,
\* SpecOverlap one more
Workers == 1..(MaxStarts + 1)
Absent == "absent"

VARIABLES
  activeJobs,   \* jobId -> status, or Absent when the key is not in the object
  tokenCache,   \* profileName -> "none" (no entry), "valid" (an entry line 112 accepts)
                \* or "stale" (an entry line 112 rejects: expired, or without a token)
  connected,    \* socket -> TRUE until its disconnect event
  worker,       \* one record per startBulkCreate invocation (its locals and position)
  emitted,      \* per invocation: the events it passed to socket.emit, in order
  calls,        \* per invocation: the upstream calls it issued, with their outcome
  endSeen,      \* history: endJob recorded 'ended' for the key while the invocation was in its loop
  verifications, \* per invocation: the verifyTicketEmail calls it started, in order
  jobs,         \* the client (App.tsx): profileName -> JobState
  handled,      \* per invocation: how many of its events the client has handled
  outbox        \* the messages the client has sent and the server has not received

vars == <<activeJobs, tokenCache, connected, worker, emitted, calls, endSeen, verifications,
          jobs, handled, outbox>>

\* ------------------------------------------------------------ pure helpers
createJobId(socketId, profileName) == <<socketId, profileName>>
JobIds == {createJobId(s, p) : s \in Sockets, p \in ProfileNames}

\* a comparison of the whole key with the socket id
StartsWithExact(jobId, socketId) == jobId = socketId
\* jobId.startsWith(socket.id)
StartsWith(jobId, socketId) == jobId[1] = socketId

\* String.prototype.trim on the recipient strings of the model
Trim(email) == IF email = "  " THEN "" ELSE email

\* `!email.trim()`
IsBlank(email) == Trim(email) = ""

\* a check that forgets the 'ended' status
ShouldBreakIgnoringEnded(st) == st = Absent
\* `!activeJobs[jobId] || activeJobs[jobId].status === 'ended'`
ShouldBreak(st) == st = Absent \/ st = "ended"

\* a loop without the pause check
IsPausedIgnored(st) == FALSE
\* `activeJobs[jobId]?.status === 'paused'`
IsPaused(st) == st = "paused"

\* a delay that starts only with the third entry (`i > 1`)
NeedsDelayAfterSecond(i, delay) == i > 1 /\ delay > 0

\* `i > 0 && delay > 0`
NeedsDelay(i, delay) == i > 0 /\ delay > 0

\* `delay * 1000` with delay given in tenths of a second
SleepMs(delay) == delay * 100

\* the for loop's `i++`
NextIndex(i) == i + 1

\* the recipient lists offered: the empty list and the lists of two entries
\* of which at most one is blank
EmailLists ==
  {<<>>, <<"a@x.com", "a@x.com">>, <<"a@x.com", "  ">>, <<"  ", "a@x.com">>}

\* the startBulkCreate payloads offered, all without verifyEmail (VerifyRequests
\* has the others): every combination for p1; for a
\* profile that is not stored, or that lacks the fromEmailAddress the request
\* needs, one payload (the handler reads nothing else of it before it throws)
Requests ==
  {r \in [selectedProfileName : ProfileNames, emails : EmailLists,
          delay : Delays, sendDirectReply : BOOLEAN, verifyEmail : {FALSE}] :
     r.selectedProfileName # "p1" =>
        /\ r.emails = <<>> /\ r.delay = 0
        /\ r.sendDirectReply = (r.selectedProfileName = "p2")}

\* events
\* ticket: the event carries a ticketNumber
TicketResult(i, ok, hasTicket) ==
  [type |-> "ticketResult", idx |-> i, success |-> ok, ticket |-> hasTicket]
Terminal(t) == [type |-> t, idx |-> 0, success |-> FALSE, ticket |-> FALSE]
\* the ticketUpdate of verifyTicketEmail for the ticket of the recipient at index i
TicketUpdate(i, ok) == [type |-> "ticketUpdate", idx |-> i, success |-> ok, ticket |-> TRUE]
TerminalTypes == {"bulkComplete", "bulkEnded", "bulkError"}

\* The synchronous run of the loop from the top of iteration i, with the
\* registry status st of the job (no handler can run in between, so st is
\* the same at every check).  Returns where the run stops: "exit" (loop left),
\* "pausewait" (awaiting the 500 ms timer), "sleep" (awaiting
\* interruptibleSleep) or "create" (about to call makeApiCall for emails[i]).
RECURSIVE LoopTop(_, _, _, _)

\* lines 522-525: the check after the delay, then the blank check
AfterSleep(emails, delay, i, st) ==
  IF ShouldBreak(st) THEN [pc |-> "exit", i |-> i]
  ELSE IF IsBlank(emails[i + 1]) THEN LoopTop(emails, delay, NextIndex(i), st)
  ELSE [pc |-> "create", i |-> i]

\* line 429: `if (ms <= 0) return resolve()`, before any timer is set
ResolvesAtOnce(ms) == ms <= 0

\* line 521
AfterPause(emails, delay, i, st) ==
  IF NeedsDelay(i, delay) /\ ~ResolvesAtOnce(SleepMs(delay)) THEN [pc |-> "sleep", i |-> i]
  ELSE AfterSleep(emails, delay, i, st)

\* lines 516-520
LoopTop(emails, delay, i, st) ==
  IF ~(i < Len(emails)) THEN [pc |-> "exit", i |-> i]
  ELSE IF ShouldBreak(st) THEN [pc |-> "exit", i |-> i]
  ELSE IF IsPaused(st) THEN [pc |-> "pausewait", i |-> i]
  ELSE AfterPause(emails, delay, i, st)

\* a finally block without the `if (activeJobs[jobId])` of line 588
FinallyEventsUnguarded(st) ==
  IF st = "ended" THEN <<Terminal("bulkEnded")>> ELSE <<Terminal("bulkComplete")>>

\* lines 587-597: the events of the finally block
FinallyEvents(st) ==
  IF st = Absent THEN <<>>
  ELSE IF st = "ended" THEN <<Terminal("bulkEnded")>>
  ELSE <<Terminal("bulkComplete")>>

\* lines 507-514: the setup succeeds
SetupOk(profileName, sendDirectReply) ==
  /\ profileName \in StoredProfiles
  /\ ~(sendDirectReply /\ ~HasFromEmailAddress(profileName))

IdleWorker ==
  [pc |-> "idle", socket |-> "s1", selectedProfileName |-> "p1", emails |-> <<>>,
   delay |-> 0, sendDirectReply |-> FALSE, verifyEmail |-> FALSE, i |-> 0, elapsed |-> 0,
   setupOk |-> FALSE]

\* the handler has returned: its locals are gone; the record keeps what
\* identifies the invocation (its key, its recipient list, whether it set up)
Returned(wr) ==
  [IdleWorker EXCEPT !.pc = "done", !.socket = wr.socket,
                     !.selectedProfileName = wr.selectedProfileName,
                     !.emails = wr.emails, !.setupOk = wr.setupOk]

\* createInitialJobState of App.tsx, lines 67-87: the fields the handlers of
\* the job events read or write
createInitialJobState ==
  [results |-> <<>>, isProcessing |-> FALSE, isPaused |-> FALSE, isComplete |-> FALSE,
   totalTicketsToProcess |-> 0]

JobOf(w) == createJobId(worker[w].socket, worker[w].selectedProfileName)
InLoop(w) == worker[w].pc \notin {"idle", "done"}

Init ==
  /\ activeJobs = [j \in JobIds |-> Absent]
  /\ tokenCache = [p \in StoredProfiles |-> "none"]
  /\ connected = [s \in Sockets |-> TRUE]
  /\ worker = [w \in Workers |-> IdleWorker]
  /\ emitted = [w \in Workers |-> <<>>]
  /\ calls = [w \in Workers |-> <<>>]
  /\ endSeen = [w \in Workers |-> FALSE]
  /\ verifications = [w \in Workers |-> <<>>]
  /\ jobs = [p \in StoredProfiles |-> createInitialJobState]
  /\ handled = [w \in Workers |-> 0]
  /\ outbox = <<>>

\* a single-flight cache: a call that finds a refresh of the profile's token
\* under way takes the token of that refresh
HasValidTokenOrRefreshing(cache, profileName) ==
  \/ cache[profileName] = "valid"
  \/ \E v \in Workers : /\ worker[v].pc \in {"create_token", "reply_token"}
                        /\ worker[v].selectedProfileName = profileName

\* line 112: the entry exists, has an access_token and expiresAt > now
HasValidToken(cache, profileName) == cache[profileName] = "valid"

\* a finally block without the `delete activeJobs[jobId]` of line 595
ContinueKeepsEntry(cache, w, wr, em, cs, registry, r) ==
  LET jobId == createJobId(wr.socket, wr.selectedProfileName) IN
  IF r.pc = "exit"
  THEN /\ worker' = [worker EXCEPT ![w] = Returned(wr)]
       /\ emitted' = [emitted EXCEPT ![w] = em \o FinallyEvents(registry[jobId])]
       /\ calls' = [calls EXCEPT ![w] = cs]
       /\ activeJobs' = registry
  ELSE IF r.pc \in {"pausewait", "sleep"}
  THEN /\ worker' = [worker EXCEPT ![w] = [wr EXCEPT !.pc = r.pc, !.i = r.i, !.elapsed = 0]]
       /\ emitted' = [emitted EXCEPT ![w] = em]
       /\ calls' = [calls EXCEPT ![w] = cs]
       /\ activeJobs' = registry
  ELSE /\ worker' = [worker EXCEPT ![w] =
             [wr EXCEPT !.pc = IF HasValidToken(cache, wr.selectedProfileName)
                                THEN "create_http" ELSE "create_token",
                        !.i = r.i]]
       /\ emitted' = [emitted EXCEPT ![w] = em]
       /\ calls' = [calls EXCEPT ![w] =
             Append(cs, [kind |-> "createTicket", idx |-> r.i, outcome |-> "pending"])]
       /\ activeJobs' = registry

\* The continuation of invocation w after the loop's synchronous run stopped
\* at r: wr is w's record, em the events it has emitted, cs the calls it has
\* issued, registry the job registry, cache the token cache as the run finds it.  Sets
\* worker, emitted, calls and activeJobs.
Continue(cache, w, wr, em, cs, registry, r) ==
  LET jobId == createJobId(wr.socket, wr.selectedProfileName) IN
  IF r.pc = "exit"
  THEN \* finally, lines 587-597
       /\ worker' = [worker EXCEPT ![w] = Returned(wr)]
       /\ emitted' = [emitted EXCEPT ![w] = em \o FinallyEvents(registry[jobId])]
       /\ calls' = [calls EXCEPT ![w] = cs]
       /\ activeJobs' = [registry EXCEPT ![jobId] = Absent]
  ELSE IF r.pc \in {"pausewait", "sleep"}
  THEN /\ worker' = [worker EXCEPT ![w] = [wr EXCEPT !.pc = r.pc, !.i = r.i, !.elapsed = 0]]
       /\ emitted' = [emitted EXCEPT ![w] = em]
       /\ calls' = [calls EXCEPT ![w] = cs]
       /\ activeJobs' = registry
  ELSE \* makeApiCall('post', '/api/v1/tickets', ...), line 536: getValidAccessToken first
       /\ worker' = [worker EXCEPT ![w] =
             [wr EXCEPT !.pc = IF HasValidToken(cache, wr.selectedProfileName)
                                THEN "create_http" ELSE "create_token",
                        !.i = r.i]]
       /\ emitted' = [emitted EXCEPT ![w] = em]
       /\ calls' = [calls EXCEPT ![w] =
             Append(cs, [kind |-> "createTicket", idx |-> r.i, outcome |-> "pending"])]
       /\ activeJobs' = registry

\* socket.on('startBulkCreate'), lines 500-598, up to its first await
StartBulkCreate(w, s, p, em, d, reply, ver) ==
  /\ worker[w].pc = "idle"
  /\ \A v \in Workers : v < w => worker[v].pc # "idle"
  /\ connected[s]
  /\ LET jobId == createJobId(s, p)
         registry  == [activeJobs EXCEPT ![jobId] = "running"]
         wr    == [pc |-> "top", socket |-> s, selectedProfileName |-> p, emails |-> em,
                   delay |-> d, sendDirectReply |-> reply, verifyEmail |-> ver, i |-> 0,
                   elapsed |-> 0,
                   setupOk |-> SetupOk(p, reply)]
     IN IF SetupOk(p, reply)
           THEN Continue(tokenCache, w, wr, <<>>, <<>>, registry, LoopTop(em, d, 0, "running"))
           ELSE \* throw -> catch (bulkError, line 586) -> finally
                /\ worker' = [worker EXCEPT ![w] = Returned(wr)]
                /\ emitted' = [emitted EXCEPT ![w] =
                      <<Terminal("bulkError")>> \o FinallyEvents(registry[jobId])]
                /\ activeJobs' = [registry EXCEPT ![jobId] = Absent]
                /\ UNCHANGED calls
  /\ UNCHANGED <<tokenCache, connected, endSeen, verifications>>
  /\ UNCHANGED <<jobs, handled>>

\* a pauseJob without the `if (activeJobs[jobId])` of line 664
PauseJobUnguarded(s, p) ==
  /\ connected[s]
  /\ activeJobs' = [activeJobs EXCEPT ![createJobId(s, p)] = "paused"]
  /\ UNCHANGED <<tokenCache, connected, worker, emitted, calls, endSeen, verifications>>
  /\ UNCHANGED <<jobs, handled>>

\* socket.on('pauseJob'), lines 662-667
PauseJob(s, p) ==
  /\ connected[s]
  /\ LET jobId == createJobId(s, p) IN
       /\ activeJobs' = IF activeJobs[jobId] # Absent
                        THEN [activeJobs EXCEPT ![jobId] = "paused"] ELSE activeJobs
  /\ UNCHANGED <<tokenCache, connected, worker, emitted, calls, endSeen, verifications>>
  /\ UNCHANGED <<jobs, handled>>

\* socket.on('resumeJob'), lines 669-674
ResumeJob(s, p) ==
  /\ connected[s]
  /\ LET jobId == createJobId(s, p) IN
       /\ activeJobs' = IF activeJobs[jobId] # Absent
                        THEN [activeJobs EXCEPT ![jobId] = "running"] ELSE activeJobs
  /\ UNCHANGED <<tokenCache, connected, worker, emitted, calls, endSeen, verifications>>
  /\ UNCHANGED <<jobs, handled>>

\* an endJob that removes the entry when it is called for an ended job
EndJobTwiceRemoves(s, p) ==
  /\ connected[s]
  /\ LET jobId == createJobId(s, p) IN
       /\ activeJobs' = IF activeJobs[jobId] = Absent THEN activeJobs
                        ELSE IF activeJobs[jobId] = "ended"
                        THEN [activeJobs EXCEPT ![jobId] = Absent]
                        ELSE [activeJobs EXCEPT ![jobId] = "ended"]
       /\ endSeen' = [w \in Workers |->
             endSeen[w] \/ (InLoop(w) /\ JobOf(w) = jobId /\ activeJobs[jobId] # Absent)]
  /\ UNCHANGED <<tokenCache, connected, worker, emitted, calls, verifications>>
  /\ UNCHANGED <<jobs, handled>>

\* socket.on('endJob'), lines 676-681
EndJob(s, p) ==
  /\ connected[s]
  /\ LET jobId == createJobId(s, p) IN
       /\ activeJobs' = IF activeJobs[jobId] # Absent
                        THEN [activeJobs EXCEPT ![jobId] = "ended"] ELSE activeJobs
       /\ endSeen' = [w \in Workers |->
             endSeen[w] \/ (InLoop(w) /\ JobOf(w) = jobId /\ activeJobs[jobId] # Absent)]
  /\ UNCHANGED <<tokenCache, connected, worker, emitted, calls, verifications>>
  /\ UNCHANGED <<jobs, handled>>

\* socket.on('disconnect'), lines 683-689
Disconnect(s) ==
  /\ connected[s]
  /\ connected' = [connected EXCEPT ![s] = FALSE]
  /\ activeJobs' = [j \in JobIds |-> IF StartsWith(j, s) THEN Absent ELSE activeJobs[j]]
  /\ UNCHANGED <<tokenCache, worker, emitted, calls, endSeen, verifications>>
  /\ UNCHANGED <<jobs, handled>>

\* a pause wait that goes on with the following recipient when it ends
PauseTimerSkips(w) ==
  /\ worker[w].pc = "pausewait"
  /\ LET wr == worker[w]
         st == activeJobs[JobOf(w)]
     IN IF IsPaused(st)
        THEN UNCHANGED <<worker, emitted, calls, activeJobs>>
        ELSE Continue(tokenCache, w, wr, emitted[w], calls[w], activeJobs,
                      LoopTop(wr.emails, wr.delay, NextIndex(wr.i), st))
  /\ UNCHANGED <<tokenCache, connected, endSeen, verifications>>
  /\ UNCHANGED <<jobs, handled, outbox>>

\* line 519: the 500 ms timer of the pause wait fires and the while condition
\* of line 518 is evaluated again
PauseTimer(w) ==
  /\ worker[w].pc = "pausewait"
  /\ LET wr == worker[w]
         st == activeJobs[JobOf(w)]
     IN IF IsPaused(st)
        THEN UNCHANGED <<worker, emitted, calls, activeJobs>>
        ELSE Continue(tokenCache, w, wr, emitted[w], calls[w], activeJobs,
                      AfterPause(wr.emails, wr.delay, wr.i, st))
  /\ UNCHANGED <<tokenCache, connected, endSeen, verifications>>
  /\ UNCHANGED <<jobs, handled, outbox>>

\* an interruptibleSleep that compares with `elapsed > ms`
SleepTickLate(w) ==
  /\ worker[w].pc = "sleep"
  /\ LET wr == worker[w]
         st == activeJobs[JobOf(w)]
         el == wr.elapsed + interval
     IN IF ShouldBreak(st) \/ el > SleepMs(wr.delay)
        THEN Continue(tokenCache, w, wr, emitted[w], calls[w], activeJobs,
                      AfterSleep(wr.emails, wr.delay, wr.i, st))
        ELSE /\ worker' = [worker EXCEPT ![w].elapsed = el]
             /\ UNCHANGED <<emitted, calls, activeJobs>>
  /\ UNCHANGED <<tokenCache, connected, endSeen, verifications>>
  /\ UNCHANGED <<jobs, handled, outbox>>

\* interruptibleSleep, lines 427-444: one tick of its setInterval; when the
\* promise resolves the loop goes on at line 522
SleepTick(w) ==
  /\ worker[w].pc = "sleep"
  /\ LET wr == worker[w]
         st == activeJobs[JobOf(w)]
         el == wr.elapsed + interval
     IN IF ShouldBreak(st) \/ el >= SleepMs(wr.delay)
        THEN Continue(tokenCache, w, wr, emitted[w], calls[w], activeJobs,
                      AfterSleep(wr.emails, wr.delay, wr.i, st))
        ELSE /\ worker' = [worker EXCEPT ![w].elapsed = el]
             /\ UNCHANGED <<emitted, calls, activeJobs>>
  /\ UNCHANGED <<tokenCache, connected, endSeen, verifications>>
  /\ UNCHANGED <<jobs, handled, outbox>>

\* lines 575-577: `if (verifyEmail) verifyTicketEmail(newTicket, ...)`, not
\* awaited; verifyTicketEmail runs to the setTimeout of line 603
NewVerification(i) == [idx |-> i, pc |-> "wait", waited |-> 0]
Verifying(w, hasTicket) ==
  IF worker[w].verifyEmail /\ hasTicket
  THEN [verifications EXCEPT ![w] = Append(@, NewVerification(worker[w].i))]
  ELSE verifications

\* the last call of a list of calls gets its outcome
Settle(cs, outcome) == [cs EXCEPT ![Len(cs)].outcome = outcome]

\* a handler without the try/catch of lines 535-582: a failure of the recipient
\* reaches the catch of line 585
EmitResultOrAbort(cache, w, ok, hasTicket, outcome) ==
  LET wr == worker[w]
      nx == [wr EXCEPT !.i = NextIndex(wr.i)]
  IN /\ IF ok
        THEN Continue(cache, w, nx, Append(emitted[w], TicketResult(wr.i, ok, hasTicket)),
                      Settle(calls[w], outcome), activeJobs,
                      LoopTop(wr.emails, wr.delay, nx.i, activeJobs[JobOf(w)]))
        ELSE Continue(cache, w, wr, Append(emitted[w], Terminal("bulkError")),
                      Settle(calls[w], outcome), activeJobs, [pc |-> "exit", i |-> wr.i])
     /\ verifications' = Verifying(w, hasTicket)

\* a loop that processes a failed recipient again instead of going on
EmitResultAndRetry(cache, w, ok, hasTicket, outcome) ==
  LET wr == worker[w]
      nx == [wr EXCEPT !.i = IF ok THEN NextIndex(wr.i) ELSE wr.i]
  IN /\ Continue(cache, w, nx, Append(emitted[w], TicketResult(wr.i, ok, hasTicket)),
                 Settle(calls[w], outcome), activeJobs,
                 LoopTop(wr.emails, wr.delay, nx.i, activeJobs[JobOf(w)]))
     /\ verifications' = Verifying(w, hasTicket)

\* a loop that drops the result of the recipient in flight when the job was
\* ended meanwhile
EmitResultUnlessEnded(cache, w, ok, hasTicket, outcome) ==
  LET wr == worker[w]
      nx == [wr EXCEPT !.i = NextIndex(wr.i)]
      st == activeJobs[JobOf(w)]
  IN /\ Continue(cache, w, nx,
                 IF st = "ended" THEN emitted[w]
                 ELSE Append(emitted[w], TicketResult(wr.i, ok, hasTicket)),
                 Settle(calls[w], outcome), activeJobs,
                 LoopTop(wr.emails, wr.delay, nx.i, st))
     /\ verifications' = Verifying(w, hasTicket)

\* a loop with `await verifyTicketEmail(...)`: the iteration ends when the
\* verification has emitted its ticketUpdate
EmitResultAwaitsVerification(cache, w, ok, hasTicket, outcome) ==
  LET wr == worker[w]
      nx == [wr EXCEPT !.i = NextIndex(wr.i)]
  IN /\ IF wr.verifyEmail /\ hasTicket
        THEN /\ worker' = [worker EXCEPT ![w].pc = "verifying"]
             /\ emitted' = [emitted EXCEPT ![w] = Append(@, TicketResult(wr.i, ok, hasTicket))]
             /\ calls' = [calls EXCEPT ![w] = Settle(@, outcome)]
             /\ UNCHANGED activeJobs
        ELSE Continue(cache, w, nx, Append(emitted[w], TicketResult(wr.i, ok, hasTicket)),
                      Settle(calls[w], outcome), activeJobs,
                      LoopTop(wr.emails, wr.delay, nx.i, activeJobs[JobOf(w)]))
     /\ verifications' = Verifying(w, hasTicket)

\* lines 566-573 and 579-582, then the loop's i++ and its next synchronous run:
\* the ticketResult of the recipient at wr.i is emitted and the loop goes on
EmitResultAndLoop(cache, w, ok, hasTicket, outcome) ==
  LET wr == worker[w]
      nx == [wr EXCEPT !.i = NextIndex(wr.i)]
  IN /\ Continue(cache, w, nx, Append(emitted[w], TicketResult(wr.i, ok, hasTicket)),
                 Settle(calls[w], outcome), activeJobs,
                 LoopTop(wr.emails, wr.delay, nx.i, activeJobs[JobOf(w)]))
     /\ verifications' = Verifying(w, hasTicket)

\* the answers of the token endpoint: a body with an access_token, a body
\* with neither an error nor an access_token, and an error (a body with an
\* error field, line 124, or a failed request)
TokenOutcomes == {"token", "tokenless", "fail"}

\* the response is written to the cache, line 132; line 112 accepts the entry
\* only when it holds an access_token
StoreToken(profileName, outcome) ==
  [tokenCache EXCEPT ![profileName] = IF outcome = "token" THEN "valid" ELSE "stale"]

\* a catch block (line 135) that deletes the profile's entry
AfterRefreshDropsEntry(profileName, outcome) ==
  IF outcome = "fail" THEN [tokenCache EXCEPT ![profileName] = "none"]
  ELSE StoreToken(profileName, outcome)

\* lines 122-132: the cache after the token endpoint has answered; the
\* throws of lines 122 and 125 come before the write
AfterRefresh(profileName, outcome) ==
  IF outcome = "fail" THEN tokenCache ELSE StoreToken(profileName, outcome)

\* getValidAccessToken, lines 109-140, called by makeApiCall for the
\* create-ticket call: the token endpoint answers
CreateTokenResponse(w, outcome) ==
  /\ worker[w].pc = "create_token"
  /\ tokenCache' = AfterRefresh(worker[w].selectedProfileName, outcome)
  /\ IF outcome = "token"
     THEN /\ worker' = [worker EXCEPT ![w].pc = "create_http"]
          /\ UNCHANGED <<emitted, calls, activeJobs, verifications>>
     ELSE \* the throw of line 138, or of line 146 when the body has no
          \* access_token, reaches the catch of line 579
          EmitResultAndLoop(AfterRefresh(worker[w].selectedProfileName, outcome),
                            w, FALSE, FALSE, "fail")
  /\ UNCHANGED <<connected, endSeen>>
  /\ UNCHANGED <<jobs, handled, outbox>>

\* lines 544-554: the reply call is issued for the recipient in flight
IssueReply(w) ==
  /\ worker' = [worker EXCEPT ![w].pc =
        IF HasValidToken(tokenCache, worker[w].selectedProfileName)
        THEN "reply_http" ELSE "reply_token"]
  /\ calls' = [calls EXCEPT ![w] =
        Append(Settle(@, "ok"),
               [kind |-> "sendReply", idx |-> worker[w].i, outcome |-> "pending"])]
  /\ UNCHANGED <<emitted, activeJobs, verifications>>

\* lines 536-582: the create-ticket request answers
CreateResponse(w, ok) ==
  /\ worker[w].pc = "create_http"
  /\ IF ok
     THEN IF worker[w].sendDirectReply
          THEN IssueReply(w)
          ELSE EmitResultAndLoop(tokenCache, w, TRUE, TRUE, "ok")
     ELSE EmitResultAndLoop(tokenCache, w, FALSE, FALSE, "fail")
  /\ UNCHANGED <<tokenCache, connected, endSeen>>
  /\ UNCHANGED <<jobs, handled, outbox>>

\* getValidAccessToken called by makeApiCall for the reply call of line 554
ReplyTokenResponse(w, outcome) ==
  /\ worker[w].pc = "reply_token"
  /\ tokenCache' = AfterRefresh(worker[w].selectedProfileName, outcome)
  /\ IF outcome = "token"
     THEN /\ worker' = [worker EXCEPT ![w].pc = "reply_http"]
          /\ UNCHANGED <<emitted, calls, activeJobs, verifications>>
     ELSE \* caught at line 558: overallSuccess = false, the ticket number is kept
          EmitResultAndLoop(AfterRefresh(worker[w].selectedProfileName, outcome),
                            w, FALSE, TRUE, "fail")
  /\ UNCHANGED <<connected, endSeen>>
  /\ UNCHANGED <<jobs, handled, outbox>>

\* a reply branch that issues the send-reply call again when it failed
ReplyResponseRetries(w, ok) ==
  /\ worker[w].pc = "reply_http"
  /\ IF ok
     THEN EmitResultAndLoop(tokenCache, w, TRUE, TRUE, "ok")
     ELSE /\ calls' = [calls EXCEPT ![w] =
                Append(Settle(@, "fail"),
                       [kind |-> "sendReply", idx |-> worker[w].i, outcome |-> "pending"])]
          /\ UNCHANGED <<worker, emitted, activeJobs, verifications>>
  /\ UNCHANGED <<tokenCache, connected, endSeen>>
  /\ UNCHANGED <<jobs, handled, outbox>>

\* lines 554-573: the sendReply request answers
ReplyResponse(w, ok) ==
  /\ worker[w].pc = "reply_http"
  /\ IF ok
     THEN EmitResultAndLoop(tokenCache, w, TRUE, TRUE, "ok")
     ELSE EmitResultAndLoop(tokenCache, w, FALSE, TRUE, "fail")
  /\ UNCHANGED <<tokenCache, connected, endSeen>>
  /\ UNCHANGED <<jobs, handled, outbox>>

\* time passes beyond a cached token's expiresAt (line 112)
TokenExpires(p) ==
  /\ tokenCache[p] = "valid"
  /\ tokenCache' = [tokenCache EXCEPT ![p] = "stale"]
  /\ UNCHANGED <<activeJobs, connected, worker, emitted, calls, endSeen, verifications>>
  /\ UNCHANGED <<jobs, handled, outbox>>

Signals ==
  \/ \E s \in Sockets, p \in ProfileNames : PauseJob(s, p) /\ UNCHANGED outbox
  \/ \E s \in Sockets, p \in ProfileNames : ResumeJob(s, p) /\ UNCHANGED outbox
  \/ \E s \in Sockets, p \in ProfileNames : EndJob(s, p) /\ UNCHANGED outbox
  \/ \E s \in Sockets : Disconnect(s) /\ UNCHANGED outbox

Steps ==
  \/ \E w \in Workers : PauseTimer(w)
  \/ \E w \in Workers : SleepTick(w)
  \/ \E w \in Workers, o \in TokenOutcomes : CreateTokenResponse(w, o)
  \/ \E w \in Workers, ok \in BOOLEAN : CreateResponse(w, ok)
  \/ \E w \in Workers, o \in TokenOutcomes : ReplyTokenResponse(w, o)
  \/ \E w \in Workers, ok \in BOOLEAN : ReplyResponse(w, ok)
  \/ \E p \in StoredProfiles : TokenExpires(p)

Start(n) ==
  \E w \in 1..n, s \in Sockets, r \in Requests :
     /\ StartBulkCreate(w, s, r.selectedProfileName, r.emails, r.delay, r.sendDirectReply,
                     r.verifyEmail)
     /\ UNCHANGED outbox

Next == Start(MaxStarts) \/ Signals \/ Steps

Spec == Init /\ [][Next]_vars

\* The scheduling the event loop gives a worker: a timer that is set fires
\* (lines 430 and 519), and every upstream call comes back with an answer.
Fairness ==
  \A w \in Workers :
     /\ WF_vars(PauseTimer(w))
     /\ WF_vars(SleepTick(w))
     /\ WF_vars(\E o \in TokenOutcomes : CreateTokenResponse(w, o))
     /\ WF_vars(\E ok \in BOOLEAN : CreateResponse(w, ok))
     /\ WF_vars(\E o \in TokenOutcomes : ReplyTokenResponse(w, o))
     /\ WF_vars(\E ok \in BOOLEAN : ReplyResponse(w, ok))

SpecFair == Init /\ [][Next]_vars /\ Fairness

\* one more startBulkCreate than Spec: two invocations can overlap
NextOverlap == Start(MaxStarts + 1) \/ Signals \/ Steps

SpecOverlap == Init /\ [][NextOverlap]_vars

\* two live keys of one connection: each stored profile is started at most
\* once, with a list of two recipients and the delay
KeyRequests ==
  {[selectedProfileName |-> p, emails |-> <<"a@x.com", "a@x.com">>, delay |-> MaxDelay,
    sendDirectReply |-> HasFromEmailAddress(p), verifyEmail |-> FALSE] : p \in StoredProfiles}

StartKeys ==
  \E w \in Workers, s \in Sockets, r \in KeyRequests :
     /\ \A v \in Workers :
           worker[v].pc # "idle" => worker[v].selectedProfileName # r.selectedProfileName
     /\ StartBulkCreate(w, s, r.selectedProfileName, r.emails, r.delay, r.sendDirectReply,
                     r.verifyEmail)
     /\ UNCHANGED outbox

NextKeys == StartKeys \/ Signals \/ Steps

SpecKeys == Init /\ [][NextKeys]_vars

\* invocations that share one key: every startBulkCreate is for p1, with a
\* list of two recipients and the delay, without a direct reply
SharedRequests ==
  {[selectedProfileName |-> "p1", emails |-> <<"a@x.com", "a@x.com">>, delay |-> MaxDelay,
    sendDirectReply |-> FALSE, verifyEmail |-> FALSE]}

StartShared ==
  \E w \in Workers, s \in Sockets, r \in SharedRequests :
     /\ StartBulkCreate(w, s, r.selectedProfileName, r.emails, r.delay, r.sendDirectReply,
                     r.verifyEmail)
     /\ UNCHANGED outbox

\* the steps of workers that send no reply, within the lifetime of the token
\* the first call caches
StepsShared ==
  \/ \E w \in Workers : PauseTimer(w)
  \/ \E w \in Workers : SleepTick(w)
  \/ \E w \in Workers, o \in TokenOutcomes : CreateTokenResponse(w, o)
  \/ \E w \in Workers, ok \in BOOLEAN : CreateResponse(w, ok)

NextShared == StartShared \/ Signals \/ StepsShared

SpecShared == Init /\ [][NextShared]_vars

\* ------------------------------------------------- verifyTicketEmail
\* verifyTicketEmail, lines 600-660, for the k-th call invocation w made of it.
\* Its positions: "wait" (the setTimeout of line 603); "history_token" (each
\* of the two History calls of lines 605-608 has sent a token refresh),
\* "history_token1" (one of the two refreshes brought a token and that call's
\* request is sent, the other refresh is out), "history_http" (both requests
\* are sent; they answer together); "alerts_token" / "alerts_http" (the call
\* of line 628); "settled_token" (Promise.all has rejected and the
\* ticketUpdate is emitted while the refresh of the other History call is
\* out); "done" (the ticketUpdate came from the try block) and "failed" (it
\* came from the catch of line 648).
IsVerification(w, k) == k \in 1..Len(verifications[w])

\* the verification moves to position pc
VerificationAt(w, k, pc) == [verifications EXCEPT ![w][k].pc = pc]

\* makeApiCall, lines 142-157: getValidAccessToken answers from the cache or
\* asks the token endpoint first
CallPosition(w, name) ==
  IF HasValidToken(tokenCache, worker[w].selectedProfileName)
  THEN name \o "_http" ELSE name \o "_token"

\* the socket.emit of lines 620, 639 or 652 ends the verification, which
\* moves to pc
EmitUpdate(w, k, ok, pc) ==
  /\ emitted' = [emitted EXCEPT ![w] = Append(@, TicketUpdate(verifications[w][k].idx, ok))]
  /\ verifications' = VerificationAt(w, k, pc)

\* line 603: `interval` ms of the setTimeout(resolve, 10000) pass; the timer
\* looks at nothing, and when it fires the two History calls are issued
VerifyWaitTick(w, k) ==
  /\ IsVerification(w, k)
  /\ verifications[w][k].pc = "wait"
  /\ LET wt == verifications[w][k].waited + interval IN
       verifications' =
          IF wt >= verifyWait
          THEN [verifications EXCEPT ![w][k].pc = CallPosition(w, "history"),
                                     ![w][k].waited = 0]
          ELSE [verifications EXCEPT ![w][k].waited = wt]
  /\ UNCHANGED <<activeJobs, tokenCache, connected, worker, emitted, calls, endSeen>>
  /\ UNCHANGED <<jobs, handled, outbox>>

\* getValidAccessToken for a call of verifyTicketEmail: the token endpoint
\* answers one refresh; a failure reaches the catch of line 648, unless
\* Promise.all has rejected before
VerifyTokenResponse(w, k, outcome) ==
  /\ IsVerification(w, k)
  /\ LET pc == verifications[w][k].pc IN
     /\ pc \in {"history_token", "history_token1", "settled_token", "alerts_token"}
     /\ tokenCache' = AfterRefresh(worker[w].selectedProfileName, outcome)
     /\ IF pc = "settled_token"
        THEN /\ verifications' = VerificationAt(w, k, "failed")
             /\ UNCHANGED emitted
        ELSE IF outcome = "token"
        THEN /\ verifications' =
                   VerificationAt(w, k, CASE pc = "history_token" -> "history_token1"
                                          [] pc = "history_token1" -> "history_http"
                                          [] OTHER -> "alerts_http")
             /\ UNCHANGED emitted
        ELSE EmitUpdate(w, k, FALSE, IF pc = "history_token" THEN "settled_token" ELSE "failed")
  /\ UNCHANGED <<activeJobs, connected, worker, calls, endSeen>>
  /\ UNCHANGED <<jobs, handled, outbox>>

\* the answers of the two History calls: a list with events, two empty lists,
\* or a failure of one of them
HistoryOutcomes == {"events", "empty", "fail"}

\* lines 605-647: Promise.all settles
VerifyHistoryResponse(w, k, outcome) ==
  /\ IsVerification(w, k)
  /\ \/ verifications[w][k].pc = "history_http"
     \/ \* the request that is out fails while the other call awaits its token
        verifications[w][k].pc = "history_token1" /\ outcome = "fail"
  /\ IF outcome = "empty"
     THEN \* line 628: the failure alerts are asked for
          /\ verifications' = VerificationAt(w, k, CallPosition(w, "alerts"))
          /\ UNCHANGED emitted
     ELSE EmitUpdate(w, k, outcome = "events",
                     IF outcome = "events" THEN "done"
                     ELSE IF verifications[w][k].pc = "history_token1" THEN "settled_token"
                     ELSE "failed")
  /\ UNCHANGED <<activeJobs, tokenCache, connected, worker, calls, endSeen>>
  /\ UNCHANGED <<jobs, handled, outbox>>

\* lines 628-646 and 648-659: with or without a failure alert for the ticket,
\* and when the call fails, the ticketUpdate has success = false
VerifyAlertsResponse(w, k, ok) ==
  /\ IsVerification(w, k)
  /\ verifications[w][k].pc = "alerts_http"
  /\ EmitUpdate(w, k, FALSE, IF ok THEN "done" ELSE "failed")
  /\ UNCHANGED <<activeJobs, tokenCache, connected, worker, calls, endSeen>>
  /\ UNCHANGED <<jobs, handled, outbox>>

StepsVerify ==
  \/ \E w \in Workers : \E k \in DOMAIN verifications[w] : VerifyWaitTick(w, k)
  \/ \E w \in Workers : \E k \in DOMAIN verifications[w], o \in TokenOutcomes :
        VerifyTokenResponse(w, k, o)
  \/ \E w \in Workers : \E k \in DOMAIN verifications[w], o \in HistoryOutcomes :
        VerifyHistoryResponse(w, k, o)
  \/ \E w \in Workers : \E k \in DOMAIN verifications[w], ok \in BOOLEAN :
        VerifyAlertsResponse(w, k, ok)

\* batches with verifyEmail: one invocation for p1 with a recipient, a blank
\* entry after it and the delay, with or without a direct reply
VerifyRequests ==
  {[selectedProfileName |-> "p1", emails |-> <<"a@x.com", "  ">>, delay |-> MaxDelay,
    sendDirectReply |-> reply, verifyEmail |-> TRUE] : reply \in BOOLEAN}

StartVerify ==
  \E s \in Sockets, r \in VerifyRequests :
     /\ StartBulkCreate(1, s, r.selectedProfileName, r.emails, r.delay, r.sendDirectReply,
                     r.verifyEmail)
     /\ UNCHANGED outbox

NextVerify == StartVerify \/ Signals \/ Steps \/ StepsVerify

SpecVerify == Init /\ [][NextVerify]_vars

\* a batch with verifyEmail and two recipients, without delay and reply,
\* within the lifetime of the token its first call caches: two verifications
\* can be under way at a time
PairRequests ==
  {[selectedProfileName |-> "p1", emails |-> <<"a@x.com", "a@x.com">>, delay |-> 0,
    sendDirectReply |-> FALSE, verifyEmail |-> TRUE]}

StartPair ==
  \E s \in Sockets, r \in PairRequests :
     /\ StartBulkCreate(1, s, r.selectedProfileName, r.emails, r.delay, r.sendDirectReply,
                     r.verifyEmail)
     /\ UNCHANGED outbox

StepsPair ==
  \/ \E w \in Workers : PauseTimer(w)
  \/ \E w \in Workers, o \in TokenOutcomes : CreateTokenResponse(w, o)
  \/ \E w \in Workers, ok \in BOOLEAN : CreateResponse(w, ok)
  \/ \E w \in Workers : \E k \in DOMAIN verifications[w] : VerifyWaitTick(w, k)
  \/ \E w \in Workers : \E k \in DOMAIN verifications[w], o \in HistoryOutcomes :
        VerifyHistoryResponse(w, k, o)
  \/ \E w \in Workers : \E k \in DOMAIN verifications[w], ok \in BOOLEAN :
        VerifyAlertsResponse(w, k, ok)

NextPair == StartPair \/ Signals \/ StepsPair

SpecPair == Init /\ [][NextPair]_vars

\* ------------------------------------------------------------ the client
\* The browser side of the job events: handleFormSubmit, handlePauseResume
\* and handleEndJob of ZohoDashboard.tsx and the socket handlers of App.tsx.
\* A message the client emits reaches the server later, in the order sent;
\* the events of an invocation reach the client later, in the order emitted.
MaxOutbox == 2        \* messages of the client under way to the server

\* the lines of the recipients text area offered
FormLines == {<<"a@x.com", "a@x.com">>, <<"a@x.com", "  ">>}

\* line 201: split('\n').map(email => email.trim()).filter(email => email !== '')
RECURSIVE FilterEmails(_)
FilterEmails(lines) ==
  IF lines = <<>> THEN <<>>
  ELSE IF Trim(Head(lines)) = "" THEN FilterEmails(Tail(lines))
  ELSE <<Trim(Head(lines))>> \o FilterEmails(Tail(lines))

\* a message of the client; the fields of startBulkCreate are empty in the others
Message(type, profileName) ==
  [type |-> type, profileName |-> profileName, emails |-> <<>>, delay |-> 0,
   sendDirectReply |-> FALSE, verifyEmail |-> FALSE]

\* the startBulkCreate messages sent so far
Submitted ==
  Cardinality({w \in Workers : worker[w].pc # "idle"})
     + Len(SelectSeq(outbox, LAMBDA msg : msg.type = "startBulkCreate"))

\* handleFormSubmit, ZohoDashboard.tsx lines 198-231; the button is rendered
\* when !isProcessing (TicketForm.tsx line 283)
HandleFormSubmit(p, lines, ver) ==
  /\ ~jobs[p].isProcessing
  /\ Submitted < MaxStarts
  /\ Len(outbox) < MaxOutbox
  /\ LET emails == FilterEmails(lines) IN
       /\ emails # <<>>
       /\ jobs' = [jobs EXCEPT ![p] =
             [@ EXCEPT !.results = <<>>, !.isProcessing = TRUE, !.isPaused = FALSE,
                       !.isComplete = FALSE, !.totalTicketsToProcess = Len(emails)]]
       /\ outbox' = Append(outbox, [Message("startBulkCreate", p) EXCEPT
                                       !.emails = emails, !.verifyEmail = ver])
  /\ UNCHANGED <<activeJobs, tokenCache, connected, worker, emitted, calls, endSeen,
                 verifications, handled>>

\* handlePauseResume, lines 260-271; the button is rendered while isProcessing
HandlePauseResume(p) ==
  /\ jobs[p].isProcessing
  /\ Len(outbox) < MaxOutbox
  /\ outbox' = Append(outbox, Message(IF jobs[p].isPaused THEN "resumeJob" ELSE "pauseJob", p))
  /\ jobs' = [jobs EXCEPT ![p].isPaused = ~@]
  /\ UNCHANGED <<activeJobs, tokenCache, connected, worker, emitted, calls, endSeen,
                 verifications, handled>>

\* handleEndJob, lines 273-277; the button is rendered while isProcessing
HandleEndJob(p) ==
  /\ jobs[p].isProcessing
  /\ Len(outbox) < MaxOutbox
  /\ outbox' = Append(outbox, Message("endJob", p))
  /\ jobs' = [jobs EXCEPT ![p] = createInitialJobState]
  /\ UNCHANGED <<activeJobs, tokenCache, connected, worker, emitted, calls, endSeen,
                 verifications, handled>>

\* the server receives the oldest message of the client: its handler runs
Receive(s, type) ==
  /\ outbox # <<>>
  /\ Head(outbox).type = type
  /\ outbox' = Tail(outbox)
  /\ LET msg == Head(outbox) IN
       CASE type = "startBulkCreate" ->
              \E w \in Workers :
                 StartBulkCreate(w, s, msg.profileName, msg.emails, msg.delay,
                                 msg.sendDirectReply, msg.verifyEmail)
         [] type = "pauseJob" -> PauseJob(s, msg.profileName)
         [] type = "resumeJob" -> ResumeJob(s, msg.profileName)
         [] OTHER -> EndJob(s, msg.profileName)

\* the event of invocation w the client handles next
NextEvent(w) == emitted[w][handled[w] + 1]

\* the ticket number of the ticket created for recipient idx of invocation w
TicketNumber(w, idx) == <<w, idx>>

\* socket.on('ticketResult'), App.tsx lines 107-121
OnTicketResult(w) ==
  /\ handled[w] < Len(emitted[w])
  /\ NextEvent(w).type = "ticketResult"
  /\ LET e == NextEvent(w)
         p == worker[w].selectedProfileName
     IN jobs' = [jobs EXCEPT ![p].results =
                   Append(@, [ticketNumber |-> IF e.ticket THEN TicketNumber(w, e.idx)
                                               ELSE <<>>,
                              success |-> e.success])]
  /\ handled' = [handled EXCEPT ![w] = @ + 1]
  /\ UNCHANGED <<activeJobs, tokenCache, connected, worker, emitted, calls, endSeen,
                 verifications, outbox>>

\* a handler that leaves the success of a stored result alone
OnTicketUpdateKeepsSuccess(w) ==
  /\ handled[w] < Len(emitted[w])
  /\ NextEvent(w).type = "ticketUpdate"
  /\ handled' = [handled EXCEPT ![w] = @ + 1]
  /\ UNCHANGED <<activeJobs, tokenCache, connected, worker, emitted, calls, endSeen,
                 verifications, outbox, jobs>>

\* socket.on('ticketUpdate'), App.tsx lines 123-133
OnTicketUpdate(w) ==
  /\ handled[w] < Len(emitted[w])
  /\ NextEvent(w).type = "ticketUpdate"
  /\ LET e == NextEvent(w)
         p == worker[w].selectedProfileName
     IN jobs' = [jobs EXCEPT ![p].results =
                   [n \in DOMAIN @ |->
                      IF @[n].ticketNumber = TicketNumber(w, e.idx)
                      THEN [@[n] EXCEPT !.success = e.success] ELSE @[n]]]
  /\ handled' = [handled EXCEPT ![w] = @ + 1]
  /\ UNCHANGED <<activeJobs, tokenCache, connected, worker, emitted, calls, endSeen,
                 verifications, outbox>>

\* handleJobCompletion, App.tsx lines 135-145, for bulkComplete, bulkEnded and
\* bulkError
HandleJobCompletion(w) ==
  /\ handled[w] < Len(emitted[w])
  /\ NextEvent(w).type \in TerminalTypes
  /\ jobs' = [jobs EXCEPT ![worker[w].selectedProfileName] =
                [@ EXCEPT !.isProcessing = FALSE, !.isPaused = FALSE, !.isComplete = TRUE]]
  /\ handled' = [handled EXCEPT ![w] = @ + 1]
  /\ UNCHANGED <<activeJobs, tokenCache, connected, worker, emitted, calls, endSeen,
                 verifications, outbox>>

Clicks ==
  \/ \E lines \in FormLines, ver \in BOOLEAN : HandleFormSubmit("p1", lines, ver)
  \/ HandlePauseResume("p1")
  \/ HandleEndJob("p1")

Receives ==
  \E s \in Sockets, type \in {"startBulkCreate", "pauseJob", "resumeJob", "endJob"} :
     Receive(s, type)

Events ==
  \/ \E w \in Workers : OnTicketResult(w)
  \/ \E w \in Workers : OnTicketUpdate(w)
  \/ \E w \in Workers : HandleJobCompletion(w)

\* the steps of a batch without delay and reply
StepsClient ==
  \/ \E w \in Workers : PauseTimer(w)
  \/ \E w \in Workers, o \in TokenOutcomes : CreateTokenResponse(w, o)
  \/ \E w \in Workers, ok \in BOOLEAN : CreateResponse(w, ok)
  \/ \E p \in StoredProfiles : TokenExpires(p)

\* one tab of the dashboard on profile p1 and the server
NextClient == Clicks \/ Receives \/ Events \/ StepsClient \/ StepsVerify

SpecClient == Init /\ [][NextClient]_vars

\* ------------------------------------------------------------------ claims
Results(w) == SelectSeq(emitted[w], LAMBDA e : e.type = "ticketResult")
Terminals(w) == SelectSeq(emitted[w], LAMBDA e : e.type \in TerminalTypes)
CountType(w, t) == Len(SelectSeq(emitted[w], LAMBDA e : e.type = t))
StaysConnected(w) == connected[worker[w].socket]
NonBlank(em) == Cardinality({k \in 1..Len(em) : em[k] \notin {"", "  "}})
\* the calls invocation w issues in the step
NewCalls(w) == SubSeq(calls'[w], Len(calls[w]) + 1, Len(calls'[w]))
\* the step issues a create-ticket call for invocation w
StartsRecipient(w) == \E k \in 1..Len(NewCalls(w)) : NewCalls(w)[k].kind = "createTicket"
\* every call the step issues for invocation w is the reply of the recipient
\* whose create-ticket call was in flight
OnlyInFlight(w) ==
  \A k \in 1..Len(NewCalls(w)) :
     /\ NewCalls(w)[k].kind = "sendReply"
     /\ NewCalls(w)[k].idx = worker[w].i
     /\ worker[w].pc = "create_http"

\* C1: every startBulkCreate on a connection that stays connected emits exactly
\* one terminal event (bulkComplete, bulkEnded or bulkError): never two, and
\* one once the handler has returned.
C1_ExactlyOneTerminal ==
  \A w \in Workers :
     StaysConnected(w) =>
        /\ Len(Terminals(w)) <= 1
        /\ worker[w].pc = "done" => Len(Terminals(w)) = 1

\* C2: when setup fails the batch's terminal event is bulkError and neither
\* bulkComplete nor bulkEnded is emitted; the registry has no entry for the
\* job afterwards.
C2_SetupFailureOnlyBulkError ==
  \A w \in Workers :
     (worker[w].pc = "done" /\ ~worker[w].setupOk) =>
        /\ CountType(w, "bulkError") = 1
        /\ CountType(w, "bulkComplete") = 0
        /\ CountType(w, "bulkEnded") = 0
        /\ (\A v \in Workers : ~InLoop(v)) => activeJobs[JobOf(w)] = Absent

\* C3: once endJob has recorded 'ended' and no further signal for the key
\* follows, the status stays 'ended' until the entry is removed and the entry
\* stays removed; in every such state a step of the worker issues no
\* create-ticket call, and no send-reply call but the one of the recipient
\* whose create-ticket call was in flight.
C3_EndedIssuesNoNewRecipient ==
  [][\A w \in Workers :
        (InLoop(w) /\ activeJobs[JobOf(w)] \in {"ended", Absent}) => OnlyInFlight(w)]_vars

\* a worker was ended with a recipient left and has returned without calling for it
C3_Witness ==
  \E w \in Workers :
     /\ worker[w].pc = "done" /\ endSeen[w]
     /\ worker[w].emails = <<"a@x.com", "a@x.com">>
     /\ Len(calls[w]) = 1 /\ Len(Results(w)) = 1
     /\ CountType(w, "bulkEnded") = 1

\* C4: if endJob records 'ended' while the worker is in its loop and the
\* connection stays connected, the batch emits exactly one bulkEnded and never
\* bulkComplete.
C4_EndedEmitsBulkEnded ==
  \A w \in Workers :
     (worker[w].pc = "done" /\ endSeen[w] /\ StaysConnected(w)) =>
        /\ CountType(w, "bulkEnded") = 1
        /\ CountType(w, "bulkComplete") = 0

\* C5: while the job's status is paused, its worker starts no new recipient
\* (issues no create-ticket call), wherever the pauseJob arrived.
C5_PausedStartsNoRecipient ==
  [][\A w \in Workers :
        (InLoop(w) /\ activeJobs[JobOf(w)] = "paused") => ~StartsRecipient(w)]_vars

\* C6: a job entry's status changes only running->paused, paused->running,
\* running->ended or paused->ended (besides the entry's creation and removal):
\* nothing changes an ended entry to running or paused.
C6_StatusTransitions ==
  [][\A j \in JobIds :
        activeJobs'[j] # activeJobs[j] =>
           \/ activeJobs'[j] = Absent
           \/ activeJobs[j] = Absent /\ activeJobs'[j] = "running"
           \/ <<activeJobs[j], activeJobs'[j]>> \in
                 {<<"running", "paused">>, <<"paused", "running">>,
                  <<"running", "ended">>, <<"paused", "ended">>}]_vars

\* C7: a batch that passes setup and is never ended or disconnected emits as
\* many ticketResult events as it has recipients that are non-blank after
\* trimming.
C7_OneResultPerNonBlank ==
  \A w \in Workers :
     (worker[w].pc = "done" /\ worker[w].setupOk /\ ~endSeen[w] /\ StaysConnected(w)) =>
        Len(Results(w)) = NonBlank(worker[w].emails)

\* C8: a failed create-ticket call for the recipient at index i (a failed token
\* refresh included) yields a ticketResult with success = false for i and the
\* worker goes on to index i + 1; no bulkError is emitted once the loop has
\* begun.
C8_FailureIsPerRecipient ==
  [][\A w \in Workers :
        /\ worker'[w].setupOk => CountType(w, "bulkError")' = 0
        /\ (/\ worker[w].pc \in {"create_token", "create_http"}
            /\ calls'[w][Len(calls[w])].outcome = "fail") =>
              /\ Len(emitted'[w]) > Len(emitted[w])
              /\ SubSeq(emitted'[w], 1, Len(emitted[w])) = emitted[w]
              /\ emitted'[w][Len(emitted[w]) + 1].type = "ticketResult"
              /\ emitted'[w][Len(emitted[w]) + 1].idx = worker[w].i
              /\ emitted'[w][Len(emitted[w]) + 1].success = FALSE
              /\ InLoop(w)' => worker'[w].i >= worker[w].i + 1
              /\ (/\ InLoop(w)' /\ worker[w].i + 1 < Len(worker[w].emails)
                  /\ worker[w].emails[worker[w].i + 2] = "a@x.com") =>
                    worker'[w].i = worker[w].i + 1]_vars

\* the create-ticket call of index 0 failed and the call of index 1 was issued
C8_Witness ==
  \E w \in Workers :
     /\ Len(calls[w]) >= 2
     /\ calls[w][1] = [kind |-> "createTicket", idx |-> 0, outcome |-> "fail"]
     /\ calls[w][2].kind = "createTicket" /\ calls[w][2].idx = 1
     /\ emitted[w][1] = TicketResult(0, FALSE, FALSE)

\* C9: at most one worker loop is executing for a (connection, profile) key.
C9_OneWorkerPerKey ==
  \A v, w \in Workers : (v # w /\ InLoop(v) /\ InLoop(w)) => JobOf(v) # JobOf(w)

\* C10: within one batch the ticketResult events are emitted in the order of
\* the recipient list.
C10_ResultsInInputOrder ==
  \A w \in Workers :
     \A a, b \in 1..Len(Results(w)) : a < b => Results(w)[a].idx < Results(w)[b].idx

\* a batch has emitted the results of two recipients
C10_Witness == \E w \in Workers : Len(Results(w)) = 2

\* the calls of invocation w of one kind for the recipient at index j
CallsFor(w, kind, j) == SelectSeq(calls[w], LAMBDA c : c.kind = kind /\ c.idx = j)
\* the ticketResult events of invocation w for the recipient at index j
ResultsFor(w, j) == SelectSeq(Results(w), LAMBDA e : e.idx = j)

\* C11: when the create-ticket call of a recipient succeeded and its send-reply
\* call failed (a failed token refresh included), the recipient has exactly one
\* ticketResult, with success = false and the ticket number; the send-reply
\* call was issued once, the create-ticket call stands as the only other call
\* for the recipient (nothing undoes it), and the loop is past that index.
C11_ReplyFailureKeepsTicket ==
  \A w \in Workers :
     /\ \A k \in 1..Len(calls[w]) : calls[w][k].kind \in {"createTicket", "sendReply"}
     /\ \A k \in 1..Len(calls[w]) :
          (calls[w][k].kind = "sendReply" /\ calls[w][k].outcome = "fail") =>
             LET j == calls[w][k].idx IN
               /\ ResultsFor(w, j) = <<TicketResult(j, FALSE, TRUE)>>
               /\ Len(CallsFor(w, "sendReply", j)) = 1
               /\ CallsFor(w, "createTicket", j) =
                     <<[kind |-> "createTicket", idx |-> j, outcome |-> "ok"]>>
               /\ InLoop(w) => worker[w].i > j
               /\ k < Len(calls[w]) =>
                     /\ calls[w][k + 1].kind = "createTicket"
                     /\ calls[w][k + 1].idx = j + 1

\* the reply of index 0 failed after its ticket was created, and the
\* create-ticket call of index 1 was issued
C11_Witness ==
  \E w \in Workers :
     /\ Len(calls[w]) >= 3
     /\ calls[w][1] = [kind |-> "createTicket", idx |-> 0, outcome |-> "ok"]
     /\ calls[w][2] = [kind |-> "sendReply", idx |-> 0, outcome |-> "fail"]
     /\ calls[w][3].kind = "createTicket" /\ calls[w][3].idx = 1
     /\ emitted[w][1] = TicketResult(0, FALSE, TRUE)

\* C12: the disconnect of a connection removes every registry entry of the
\* connection, and the entries stay removed; from then on a step of one of its
\* workers issues no create-ticket call and no send-reply call but the one of
\* the recipient whose create-ticket call was in flight, and the first timer
\* that fires in a pause wait or an inter-item delay ends that wait.
C12_DisconnectStopsWorkers ==
  [][/\ \A s \in Sockets :
           ~connected'[s] => \A j \in JobIds : StartsWith(j, s) => activeJobs'[j] = Absent
     /\ \A w \in Workers :
           (InLoop(w) /\ ~connected[worker[w].socket]) =>
              /\ OnlyInFlight(w)
              /\ (worker[w].pc = "pausewait" /\ worker'[w] # worker[w]) =>
                    worker'[w].pc \in {"sleep", "done"}
              /\ (worker[w].pc = "sleep" /\ worker'[w] # worker[w]) =>
                    worker'[w].pc = "done"]_vars

\* a connection with two jobs has disconnected: both entries are gone and both
\* workers have returned with a recipient left and no terminal event
C12_Witness ==
  /\ \A s \in Sockets : ~connected[s]
  /\ \E v, w \in Workers :
        /\ v # w /\ JobOf(v) # JobOf(w)
        /\ \A x \in {v, w} :
              /\ worker[x].pc = "done" /\ worker[x].setupOk
              /\ Len(CallsFor(x, "createTicket", 0)) = 1
              /\ Len(CallsFor(x, "createTicket", 1)) = 0
              /\ Terminals(x) = <<>>

\* C13: an endJob for a key whose status is already 'ended' changes nothing:
\* neither the registry nor any worker, event or call; and the worker that
\* leaves its loop with the status 'ended' emits one terminal event, bulkEnded.
C13_EndJobIdempotent ==
  [][/\ \A s \in Sockets, p \in ProfileNames :
           (activeJobs[createJobId(s, p)] = "ended" /\ EndJob(s, p)) =>
              UNCHANGED <<activeJobs, tokenCache, connected, worker, emitted, calls, verifications>>
     /\ \A w \in Workers :
           (InLoop(w) /\ worker'[w].pc = "done" /\ activeJobs[JobOf(w)] = "ended") =>
              Terminals(w)' = <<Terminal("bulkEnded")>>]_vars

\* endJob has recorded 'ended' for a worker in its loop and the connection is
\* up: the state in which a second endJob for the key arrives
C13_Witness ==
  \E w \in Workers :
     /\ InLoop(w) /\ endSeen[w] /\ StaysConnected(w)
     /\ activeJobs[JobOf(w)] = "ended"

\* the create-ticket calls invocation w has issued
CreateCalls(w) == SelectSeq(calls[w], LAMBDA c : c.kind = "createTicket")
\* another invocation for the key of invocation w has been started
SharesKey(w) == \E v \in Workers : v # w /\ worker[v].pc # "idle" /\ JobOf(v) = JobOf(w)
\* invocation w was started before another invocation for its key
FirstOfKey(w) == \E v \in Workers : w < v /\ worker[v].pc # "idle" /\ JobOf(v) = JobOf(w)

\* C14: once a second startBulkCreate for its key has been received, the first
\* worker is out of reach of pauseJob and endJob: it does not enter the pause
\* wait and it does not leave its loop on a status 'ended' before it has
\* called for every recipient.
C14_FirstWorkerOutOfReach ==
  [][\A w \in Workers :
        (InLoop(w) /\ FirstOfKey(w)) =>
           /\ worker[w].pc # "pausewait" => worker'[w].pc # "pausewait"
           /\ (activeJobs[JobOf(w)] = "ended" /\ worker'[w].pc = "done") =>
                 Len(CreateCalls(w))' = NonBlank(worker[w].emails)]_vars

\* C14 (amended): the workers of one key read the same registry entry, so
\* pauseJob and endJob reach each of them: with the status 'ended' a worker
\* issues no create-ticket call and returns when its delay ticks or its
\* recipient in flight is done; with the status 'paused' a worker that has
\* finished a recipient and has another one left enters the pause wait.
C14_SignalsReachEveryWorker ==
  [][\A w \in Workers :
        (InLoop(w) /\ SharesKey(w)) =>
           /\ activeJobs[JobOf(w)] = "ended" =>
                 /\ OnlyInFlight(w)
                 /\ (\/ worker[w].pc = "sleep" /\ worker'[w] # worker[w]
                     \/ Len(emitted'[w]) > Len(emitted[w])) => worker'[w].pc = "done"
           /\ (/\ activeJobs[JobOf(w)] = "paused"
               /\ Len(emitted'[w]) > Len(emitted[w])
               /\ worker[w].i + 1 < Len(worker[w].emails)) => worker'[w].pc = "pausewait"]_vars

\* two workers shared a key; an endJob sent after the second start stopped the
\* first worker with a recipient left, and the first worker emitted bulkEnded
C14_Witness ==
  \E v, w \in Workers :
     /\ v < w /\ JobOf(v) = JobOf(w) /\ StaysConnected(v)
     /\ worker[v].pc = "done" /\ worker[w].pc = "done" /\ endSeen[w]
     /\ Len(CreateCalls(v)) = 1 /\ worker[v].emails = <<"a@x.com", "a@x.com">>
     /\ Terminals(v) = <<Terminal("bulkEnded")>>
     /\ Terminals(w) = <<>>

\* C15: among the workers of one key on a connection that stays connected, a
\* worker that returns while the entry exists emits one terminal event in that
\* step and removes the entry, whichever start wrote it; a worker that finds
\* the entry removed issues no create-ticket call, returns when its delay
\* ticks or its recipient in flight is done, and emits no terminal event.
C15_FirstExitTakesTheEntry ==
  [][\A w \in Workers :
        (InLoop(w) /\ SharesKey(w) /\ StaysConnected(w)) =>
           /\ (activeJobs[JobOf(w)] # Absent /\ worker'[w].pc = "done") =>
                 /\ Len(Terminals(w))' = 1
                 /\ Terminals(w) = <<>>
                 /\ activeJobs'[JobOf(w)] = Absent
           /\ activeJobs[JobOf(w)] = Absent =>
                 /\ OnlyInFlight(w)
                 /\ Terminals(w)' = <<>>
                 /\ (\/ worker[w].pc = "sleep" /\ worker'[w] # worker[w]
                     \/ Len(emitted'[w]) > Len(emitted[w])) => worker'[w].pc = "done"]_vars

\* the first worker went through its list and emitted bulkComplete; the second
\* worker, never ended, has returned with a recipient left and no terminal event
C15_Witness ==
  \E v, w \in Workers :
     /\ v < w /\ JobOf(v) = JobOf(w) /\ StaysConnected(v)
     /\ ~endSeen[v] /\ ~endSeen[w]
     /\ worker[v].pc = "done" /\ Len(CreateCalls(v)) = 2
     /\ Terminals(v) = <<Terminal("bulkComplete")>>
     /\ worker[w].pc = "done" /\ worker[w].emails = <<"a@x.com", "a@x.com">>
     /\ Len(CreateCalls(w)) = 1
     /\ Terminals(w) = <<>>

\* C16: a recipient that is blank after trimming takes no delay slot: the
\* worker is never in the inter-item delay of an index whose entry is blank,
\* and it issues no call and emits no event for such an index.
C16_BlankTakesNoDelay ==
  \A w \in Workers :
     /\ worker[w].pc = "sleep" => ~IsBlank(worker[w].emails[worker[w].i + 1])
     /\ \A k \in 1..Len(worker[w].emails) :
           IsBlank(worker[w].emails[k]) =>
              /\ CallsFor(w, "createTicket", k - 1) = <<>>
              /\ CallsFor(w, "sendReply", k - 1) = <<>>
              /\ ResultsFor(w, k - 1) = <<>>

\* C17: the wait of verifyTicketEmail before its checks is cancellable through
\* the registry: when `interval` ms of the wait pass while the job's entry is
\* 'ended' or removed, the wait is over.
C17_VerifyWaitCancellable ==
  [][\A w \in Workers : \A k \in DOMAIN verifications[w] :
        (/\ verifications[w][k].pc = "wait"
         /\ activeJobs[JobOf(w)] \in {"ended", Absent}
         /\ verifications'[w][k] # verifications[w][k]) =>
           verifications'[w][k].pc # "wait"]_vars

\* the positions at which a call for the recipient at worker[w].i is in flight
InFlight == {"create_token", "create_http", "reply_token", "reply_http"}

\* C18: when an answer arrives for the recipient in flight while the status is
\* 'ended', the recipient is carried through: a successful create-ticket
\* answer is followed by the send-reply call when a reply was requested, and
\* when the recipient is done its ticketResult is emitted, followed by
\* bulkEnded, in that order.
C18_EndKeepsResultInFlight ==
  [][\A w \in Workers :
        (/\ worker[w].pc \in InFlight
         /\ activeJobs[JobOf(w)] = "ended"
         /\ worker'[w] # worker[w]) =>
           /\ \/ /\ worker'[w].pc \in InFlight
                 /\ worker'[w].i = worker[w].i
                 /\ emitted'[w] = emitted[w]
              \/ /\ worker'[w].pc = "done"
                 /\ \E ok, t \in BOOLEAN :
                       emitted'[w] = emitted[w] \o
                          <<TicketResult(worker[w].i, ok, t), Terminal("bulkEnded")>>
           /\ (/\ worker[w].pc = "create_http" /\ worker[w].sendDirectReply
               /\ calls'[w][Len(calls[w])].outcome = "ok") =>
                 NewCalls(w) =
                    <<[kind |-> "sendReply", idx |-> worker[w].i, outcome |-> "pending"]>>]_vars

\* the only recipient of a batch was in flight when endJob arrived: both its
\* calls were made and its ticketResult precedes bulkEnded
C18_Witness ==
  \E w \in Workers :
     /\ worker[w].pc = "done" /\ endSeen[w]
     /\ worker[w].emails = <<"  ", "a@x.com">>
     /\ calls[w] = <<[kind |-> "createTicket", idx |-> 1, outcome |-> "ok"],
                     [kind |-> "sendReply", idx |-> 1, outcome |-> "ok"]>>
     /\ emitted[w] = <<TicketResult(1, TRUE, TRUE), Terminal("bulkEnded")>>

\* the indices of the entries of a recipient list that are not blank, in order
NonBlankIndices(em) ==
  SelectSeq([k \in 1..Len(em) |-> k - 1], LAMBDA j : ~IsBlank(em[j + 1]))
\* the indices invocation w has issued a create-ticket call for, in order
CreateIndices(w) == [k \in 1..Len(CreateCalls(w)) |-> CreateCalls(w)[k].idx]
IsPrefix(a, b) == Len(a) <= Len(b) /\ a = SubSeq(b, 1, Len(a))

\* C19: a worker that leaves the pause wait after a resume goes on with the
\* index it waited at: its delay or its create-ticket call follows, with only
\* blank entries passed over, and it returns only when nothing but blank
\* entries is left.  The indices a worker has called for are at all times the
\* first non-blank indices of its list in order, as in a run without pause:
\* none skipped, none repeated.
C19_ResumeKeepsTheIndex ==
  [][\A w \in Workers :
        /\ IsPrefix(CreateIndices(w), NonBlankIndices(worker[w].emails))'
        /\ (/\ worker[w].pc = "pausewait"
            /\ activeJobs[JobOf(w)] = "running"
            /\ worker'[w] # worker[w]) =>
              IF worker'[w].pc = "done"
              THEN \A j \in worker[w].i..(Len(worker[w].emails) - 1) :
                      IsBlank(worker[w].emails[j + 1])
              ELSE /\ worker'[w].pc \in {"sleep", "create_token", "create_http"}
                   /\ worker'[w].i >= worker[w].i
                   /\ \A j \in worker[w].i..(worker'[w].i - 1) :
                         IsBlank(worker[w].emails[j + 1])
                   /\ \A k \in 1..Len(NewCalls(w)) : NewCalls(w)[k].idx = worker'[w].i]_vars

\* a worker that was paused before its second recipient has been resumed: it
\* is in the pause wait at index 1, the status is 'running' again
C19_Witness ==
  \E w \in Workers :
     /\ worker[w].pc = "pausewait" /\ worker[w].i = 1
     /\ worker[w].emails = <<"a@x.com", "a@x.com">>
     /\ Len(Results(w)) = 1
     /\ activeJobs[JobOf(w)] = "running"

\* the step ends the interruptibleSleep invocation w is in
SleepResolves(w) == ~(worker'[w].pc = "sleep" /\ worker'[w].i = worker[w].i)

\* C20: interruptibleSleep(ms, jobId) is only ever waited in with ms > 0 (a
\* call with ms <= 0 resolves at once, without a timer); a tick of its timer
\* resolves it exactly when the job's entry is absent or 'ended' at that tick
\* or the ticks so far, this one included, amount to ms; otherwise the tick
\* adds `interval` to the elapsed time, whether the status is 'paused' or not;
\* nothing but a tick changes the sleeping worker.
C20_SleepResolvesOnTickOrEnd ==
  [][\A w \in Workers :
        worker[w].pc = "sleep" =>
           /\ SleepMs(worker[w].delay) > 0
           /\ worker[w].elapsed < SleepMs(worker[w].delay)
           /\ worker'[w] # worker[w] =>
                 /\ SleepResolves(w) <=>
                       \/ activeJobs[JobOf(w)] \in {Absent, "ended"}
                       \/ worker[w].elapsed + interval >= SleepMs(worker[w].delay)
                 /\ ~SleepResolves(w) =>
                       worker'[w] = [worker[w] EXCEPT !.elapsed = @ + interval]]_vars

\* a paused job's worker is in interruptibleSleep with one tick left
C20_Witness ==
  \E w \in Workers :
     /\ worker[w].pc = "sleep"
     /\ worker[w].elapsed > 0
     /\ worker[w].elapsed = SleepMs(worker[w].delay) - interval
     /\ activeJobs[JobOf(w)] = "paused"

\* C21: a key for which no invocation is between its registry write and its
\* finally block has no entry in the registry, however the invocations for it
\* ended: completion, end, setup failure or disconnect.
C21_NoEntryWithoutWorker ==
  \A j \in JobIds :
     (\A w \in Workers : InLoop(w) => JobOf(w) # j) => activeJobs[j] = Absent

\* a batch went through its calls and completed: its entry is gone
C21_Witness ==
  \E w \in Workers :
     /\ worker[w].pc = "done" /\ worker[w].setupOk
     /\ Len(calls[w]) >= 1
     /\ Terminals(w) = <<Terminal("bulkComplete")>>
     /\ \A v \in Workers : ~InLoop(v)
     /\ activeJobs[JobOf(w)] = Absent

\* C22: a pauseJob, resumeJob or endJob emits no event and changes no entry
\* of another key; for a key without an entry it leaves the registry as it is,
\* for a key with an entry the entry stays, with one of the three statuses.
C22_SignalsTouchOneEntry ==
  [][\A s \in Sockets, p \in ProfileNames :
        (PauseJob(s, p) \/ ResumeJob(s, p) \/ EndJob(s, p)) =>
           LET jobId == createJobId(s, p) IN
             /\ emitted' = emitted
             /\ \A j \in JobIds \ {jobId} : activeJobs'[j] = activeJobs[j]
             /\ activeJobs[jobId] = Absent => activeJobs' = activeJobs
             /\ activeJobs[jobId] # Absent =>
                   activeJobs'[jobId] \in {"running", "paused", "ended"}]_vars

\* two keys of a connection have an entry and their statuses differ: a signal
\* has changed one of them and not the other
C22_Witness ==
  \E j, k \in JobIds :
     /\ j # k
     /\ activeJobs[j] = "paused"
     /\ activeJobs[k] = "running"

\* C23: the step that launches the verification of a recipient takes the
\* worker where the loop goes without it: to the create-ticket call of the
\* next recipient, to the pause wait or the delay, or out of the loop; and no
\* step of a verification changes the worker or its calls.
C23_VerificationRunsBeside ==
  [][\A w \in Workers :
        /\ Len(verifications'[w]) > Len(verifications[w]) =>
              LET r == LoopTop(worker[w].emails, worker[w].delay, NextIndex(worker[w].i),
                               activeJobs[JobOf(w)])
              IN /\ r.pc = "create" =>
                       NewCalls(w) =
                          <<[kind |-> "createTicket", idx |-> r.i, outcome |-> "pending"]>>
                 /\ r.pc \in {"pausewait", "sleep"} =>
                       worker'[w].pc = r.pc /\ worker'[w].i = r.i
                 /\ r.pc = "exit" => worker'[w].pc = "done"
        /\ \A k \in DOMAIN verifications[w] :
              verifications'[w][k] # verifications[w][k] =>
                 worker' = worker /\ calls' = calls]_vars

\* the ticketUpdate of the first recipient was emitted after the ticketResult
\* of the second recipient and after bulkComplete
C23_Witness ==
  \E w \in Workers :
     /\ Len(emitted[w]) >= 4
     /\ emitted[w][1] = TicketResult(0, TRUE, TRUE)
     /\ emitted[w][2].type = "ticketResult" /\ emitted[w][2].idx = 1
     /\ emitted[w][3] = Terminal("bulkComplete")
     /\ emitted[w][4].type = "ticketUpdate" /\ emitted[w][4].idx = 0

\* C25: with a delay d > 0, a create-ticket call for an index i > 0 is issued
\* only by the tick that completes the d seconds of the sleep before i, a
\* sleep that began at zero and grows by one interval per tick; the call for
\* index 0 is issued without any sleep.
C25_FullDelayBeforeEachIndex ==
  [][\A w \in Workers :
        /\ \A k \in 1..Len(NewCalls(w)) :
              LET c == NewCalls(w)[k] IN
                c.kind = "createTicket" =>
                   IF c.idx > 0 /\ worker'[w].delay > 0
                   THEN /\ worker[w].pc = "sleep"
                        /\ worker[w].i = c.idx
                        /\ worker[w].elapsed + interval >= SleepMs(worker[w].delay)
                   ELSE worker[w].pc # "sleep"
        /\ (worker'[w].pc = "sleep" /\ (worker[w].pc # "sleep" \/ worker[w].i # worker'[w].i)) =>
              worker'[w].elapsed = 0
        /\ (worker'[w].pc = "sleep" /\ worker[w].pc = "sleep" /\ worker[w].i = worker'[w].i) =>
              worker'[w].elapsed \in {worker[w].elapsed, worker[w].elapsed + interval}]_vars

\* an undisturbed batch with a delay has emitted the result of its first
\* recipient and, after the sleep, sent the request for the second
C25_Witness ==
  \E w \in Workers :
     /\ worker[w].delay = MaxDelay /\ ~endSeen[w] /\ activeJobs[JobOf(w)] = "running"
     /\ worker[w].pc = "create_http" /\ worker[w].i = 1
     /\ Len(Results(w)) = 1 /\ Results(w)[1].idx = 0 /\ Results(w)[1].ticket
     /\ CallsFor(w, "createTicket", 1) # <<>>

\* C26: a call that finds no entry of its profile that line 112 accepts sends
\* its own refresh, whatever refreshes are under way, and every answer of the
\* token endpoint that is not an error overwrites the profile's entry.
C26_RefreshNotSingleFlight ==
  [][\A w \in Workers :
        /\ (NewCalls(w) # <<>> /\ tokenCache'[worker'[w].selectedProfileName] # "valid") =>
              worker'[w].pc =
                 IF NewCalls(w)[Len(NewCalls(w))].kind = "createTicket"
                 THEN "create_token" ELSE "reply_token"
        /\ \A o \in {"token", "tokenless"} :
              (CreateTokenResponse(w, o) \/ ReplyTokenResponse(w, o)) =>
                 tokenCache'[worker[w].selectedProfileName] =
                    IF o = "token" THEN "valid" ELSE "stale"]_vars

\* one invocation has its token and its request under way while the
\* profile's entry is the token-less answer to the refresh of another
C26_Witness ==
  \E w, v \in Workers :
     /\ w # v /\ JobOf(w) = JobOf(v)
     /\ worker[v].pc = "create_http"
     /\ tokenCache[worker[v].selectedProfileName] = "stale"
     /\ Len(calls[w]) >= 1 /\ calls[w][1].outcome = "fail"

\* the call of invocation w that was waiting for its token has failed: it is
\* settled as a failure and the recipient's result has success = false
CallFailed(w) ==
  /\ calls'[w][Len(calls[w])].outcome = "fail"
  /\ Len(Results(w)') = Len(Results(w)) + 1
  /\ ~Results(w)'[Len(Results(w)')].success

\* C27: a token refresh after which the call has no token leaves the token
\* cache as it was.
C27_FailedRefreshKeepsCache ==
  [][\A w \in Workers : \A o \in {"fail", "tokenless"} :
        (CreateTokenResponse(w, o) \/ ReplyTokenResponse(w, o)) =>
           tokenCache' = tokenCache]_vars

\* C27 (amended): a token refresh that throws leaves the token cache as it
\* was; an answer with neither an error nor an access_token is written to the
\* cache as an entry line 112 rejects; in both cases the call that needed the
\* token fails; and a call is sent without a refresh only when line 112
\* accepts the profile's entry.
C27_ThrownRefreshKeepsCache ==
  [][\A w \in Workers :
        LET profileName == worker[w].selectedProfileName IN
        /\ (CreateTokenResponse(w, "fail") \/ ReplyTokenResponse(w, "fail")) =>
              tokenCache' = tokenCache /\ CallFailed(w)
        /\ (CreateTokenResponse(w, "tokenless") \/ ReplyTokenResponse(w, "tokenless")) =>
              /\ tokenCache' = [tokenCache EXCEPT ![profileName] = "stale"]
              /\ CallFailed(w)
        /\ (NewCalls(w) # <<>> /\ worker'[w].pc \in {"create_http", "reply_http"}) =>
              /\ tokenCache[worker'[w].selectedProfileName] = "valid"
              /\ tokenCache' = tokenCache]_vars

\* the first call of an invocation has failed for want of a token and the
\* profile still has no entry, while the next call asks for a token
C27_Witness ==
  \E w \in Workers :
     /\ Len(calls[w]) = 2 /\ calls[w][1].outcome = "fail"
     /\ worker[w].pc = "create_token"
     /\ tokenCache[worker[w].selectedProfileName] = "none"

\* C28: 'ended' is sticky for the worker: once endJob has recorded 'ended'
\* while the worker was in its loop, no step of that worker issues a
\* create-ticket call, and no send-reply call but the one of the recipient
\* whose create-ticket call was in flight, whatever signals follow.
C28_EndedIsSticky ==
  [][\A w \in Workers : (InLoop(w) /\ endSeen[w]) => OnlyInFlight(w)]_vars

\* the job of invocation w is not left paused for ever
NotPausedForEver(w) == <>[](activeJobs[JobOf(w)] # "paused")
\* invocation w leaves its loop for good
Exits(w) == <>[](~InLoop(w))
\* eventual exit of every worker whose job is not left paused for ever
EveryWorkerExits == \A w \in Workers : NotPausedForEver(w) => Exits(w)

\* C29: every worker whose job is not left paused for ever leaves its loop;
\* and a worker in the pause wait whose job has received endJob, or whose
\* connection has closed, issues no create-ticket call when it leaves the wait.
C29_WorkerExits ==
  /\ EveryWorkerExits
  /\ [][\A w \in Workers :
          (worker[w].pc = "pausewait" /\ (endSeen[w] \/ ~connected[worker[w].socket])) =>
             ~StartsRecipient(w)]_vars

\* the positions of a verification whose ticketUpdate came from the catch
Caught == {"failed", "settled_token"}

\* C24: when an upstream call of a verification fails, the verification emits
\* one ticketUpdate with success = false and nothing else, and changes
\* neither the worker nor the registry; and when the client handles that
\* ticketUpdate, the success recorded for every stored result stays as it was.
C24_VerificationFailureIsInconclusive ==
  [][\A w \in Workers :
        /\ \A k \in DOMAIN verifications[w] :
              (verifications'[w][k].pc \in Caught /\ verifications[w][k].pc \notin Caught) =>
                 /\ emitted'[w] = Append(emitted[w], TicketUpdate(verifications[w][k].idx, FALSE))
                 /\ worker' = worker
                 /\ activeJobs' = activeJobs
        /\ (/\ OnTicketUpdate(w)
            /\ \E k \in DOMAIN verifications[w] :
                  /\ verifications[w][k].idx = NextEvent(w).idx
                  /\ verifications[w][k].pc \in Caught) =>
              LET p == worker[w].selectedProfileName IN
                \A n \in DOMAIN jobs[p].results :
                   jobs'[p].results[n].success = jobs[p].results[n].success]_vars

\* C30: on the client, the results stored for a profile are never more than
\* the job state's totalTicketsToProcess.
C30_ResultsWithinTotal ==
  \A p \in StoredProfiles : Len(jobs[p].results) <= jobs[p].totalTicketsToProcess
====
